---- MODULE Spec2Model ----
(***************************************************************************)
(* Software rasteriser of LAB4_GC: the Framebuffer (src/src/framebuffer.rs) *)
(* and the per-frame pipeline of src/src/main.rs (render, post_process,     *)
(* blend_emission, the loop of main).                                       *)
(*                                                                          *)
(* Three specifications share the variables:                                *)
(*   Spec      the Framebuffer object under any sequence of its methods;    *)
(*   SpecMain  the loop of main: clear, render, post_process, present;      *)
(*   SpecBlend post_process over every pair of channel values.              *)
(***************************************************************************)
EXTENDS Integers, Sequences, FiniteSets

VARIABLES
    framebuffer,   \* the Framebuffer struct: width, height, buffer, zbuffer,
                   \* emission_buffer, background_color, current_color
    panicked,      \* TRUE once an index went out of range (Rust aborts the thread)
    history,       \* the calls made on the framebuffer so far, oldest first
    pre,           \* the framebuffer as it was before the last step
    pc,            \* which program runs, and where the loop of main stands
    shader_index,  \* main's shader_index, set by handle_input
    frags,         \* the fragments render has processed in this frame, in order
    time,          \* main's time: the number of frames begun
    vertex_array,  \* render's vertex_array: the mesh handed to render
    transformed_vertices,  \* render's transformed_vertices
    triangles      \* render's triangles

\* The locals of render that hold the mesh on its way to the rasteriser.
mesh == <<vertex_array, transformed_vertices, triangles>>

vars == <<framebuffer, panicked, history, pre, pc, shader_index, frags, time,
          vertex_array, transformed_vertices, triangles>>

(***************************************************************************)
(* Bounds of the model.                                                     *)
(***************************************************************************)
\* main builds an 800 x 800 framebuffer; the model checks a small one.
FbWidth == 2
FbHeight == 2
\* Finite f32 depths are modelled by their rank 0 .. MaxDepth-1 (smaller = nearer).
MaxDepth == 2
\* Number of method calls explored on the Framebuffer object under Spec.
MaxCalls == 3
\* Fragments the rasteriser hands to render in one frame, and frames of the loop.
MaxFragments == 2
MaxFrames == 2

(***************************************************************************)
(* f32 depth values: finite ranks, +infinity above them all, and NaN, which *)
(* every comparison answers with false.                                     *)
(***************************************************************************)
INFINITY == MaxDepth
NAN == MaxDepth + 1
F32Values == (0 .. MaxDepth - 1) \cup {INFINITY, NAN}

\* a > b on f32
FGt(a, b) == a # NAN /\ b # NAN /\ a > b

(***************************************************************************)
(* Packed 0xRRGGBB colours used as arguments.                               *)
(***************************************************************************)
\* 0x000000 and 0x333355 (the background main configures)
BackgroundColors == {0, 3355477}
\* 0xFFFFFF and 0xFF0000
DrawColors == {16777215, 16711680}
\* no emission, and 0x00FF00
Emissions == {0, 65280}

(***************************************************************************)
(* Framebuffer (framebuffer.rs). Vec<T> of length n is a function on        *)
(* 0 .. n-1.                                                                *)
(***************************************************************************)
VecOf(n, v) == [i \in 0 .. n - 1 |-> v]

new(width, height) ==
    [ width            |-> width,
      height           |-> height,
      buffer           |-> VecOf(width * height, 0),
      zbuffer          |-> VecOf(width * height, INFINITY),
      emission_buffer  |-> VecOf(width * height, 0),
      background_color |-> 0,
      current_color    |-> 16777215 ]

clear_StopsEarly(fb) ==
    LET dirty == { i \in DOMAIN fb.buffer :
                     \/ fb.buffer[i] # fb.background_color
                     \/ fb.zbuffer[i] # INFINITY
                     \/ fb.emission_buffer[i] # 0 }
        first == IF dirty = {} THEN -1
                 ELSE CHOOSE i \in dirty : \A j \in dirty : i <= j
    IN  [ fb EXCEPT
            !.buffer = [i \in DOMAIN fb.buffer |->
                          IF i = first THEN fb.background_color ELSE fb.buffer[i]],
            !.zbuffer = [i \in DOMAIN fb.zbuffer |->
                          IF i = first THEN INFINITY ELSE fb.zbuffer[i]],
            !.emission_buffer = [i \in DOMAIN fb.emission_buffer |->
                          IF i = first THEN 0 ELSE fb.emission_buffer[i]] ]

clear_KeepsEmission(fb) ==
    [ fb EXCEPT
        !.buffer  = [i \in DOMAIN fb.buffer |-> fb.background_color],
        !.zbuffer = [i \in DOMAIN fb.zbuffer |-> INFINITY] ]

clear(fb) ==
    [ fb EXCEPT
        !.buffer          = [i \in DOMAIN fb.buffer |-> fb.background_color],
        !.zbuffer         = [i \in DOMAIN fb.zbuffer |-> INFINITY],
        !.emission_buffer = [i \in DOMAIN fb.emission_buffer |-> 0] ]

set_background_color_Repaints(fb, color) ==
    [ fb EXCEPT !.background_color = color,
                !.buffer = [i \in DOMAIN fb.buffer |-> color] ]

set_background_color(fb, color) == [fb EXCEPT !.background_color = color]

set_current_color(fb, color) == [fb EXCEPT !.current_color = color]

\* `x < self.width && y < self.height`
InBounds_OffByOne(fb, x, y) == x <= fb.width /\ y < fb.height

InBounds(fb, x, y) == x < fb.width /\ y < fb.height

\* `let index = y * self.width + x`
Index_Transposed(fb, x, y) == x * fb.height + y

Index(fb, x, y) == y * fb.width + x

\* `self.zbuffer[index] > depth`
DepthTest_NotStrict(stored, depth) == ~ FGt(depth, stored)

DepthTest_FartherWins(stored, depth) == FGt(depth, stored)

DepthTest(stored, depth) == FGt(stored, depth)

\* Indexing a Vec outside 0 .. len-1 panics.
PointPanics(fb, x, y) ==
    InBounds(fb, x, y) /\ Index(fb, x, y) \notin DOMAIN fb.zbuffer

point_with_emission(fb, x, y, depth, emission) ==
    IF InBounds(fb, x, y) /\ Index(fb, x, y) \in DOMAIN fb.zbuffer
    THEN LET index == Index(fb, x, y)
         IN  IF DepthTest(fb.zbuffer[index], depth)
             THEN [ fb EXCEPT
                      !.buffer[index]          = fb.current_color,
                      !.emission_buffer[index] = emission,
                      !.zbuffer[index]         = depth ]
             ELSE fb
    ELSE fb

(***************************************************************************)
(* The record of one call, kept in history.                                 *)
(***************************************************************************)
Call(op, x, y, depth, emission, color) ==
    [op |-> op, x |-> x, y |-> y, depth |-> depth, emission |-> emission,
     color |-> color]

(***************************************************************************)
(* Spec: the methods of Framebuffer, called in any order.                   *)
(***************************************************************************)
ApiReady == pc = "api" /\ ~ panicked /\ Len(history) < MaxCalls

Clear ==
    /\ ApiReady
    /\ framebuffer' = clear(framebuffer)
    /\ pre' = framebuffer
    /\ history' = Append(history, Call("clear", 0, 0, 0, 0, 0))
    /\ UNCHANGED <<panicked, pc, shader_index, frags, time>>
    /\ UNCHANGED mesh

SetBackgroundColor(color) ==
    /\ ApiReady
    /\ framebuffer' = set_background_color(framebuffer, color)
    /\ pre' = framebuffer
    /\ history' = Append(history, Call("set_background_color", 0, 0, 0, 0, color))
    /\ UNCHANGED <<panicked, pc, shader_index, frags, time>>
    /\ UNCHANGED mesh

SetCurrentColor(color) ==
    /\ ApiReady
    /\ framebuffer' = set_current_color(framebuffer, color)
    /\ pre' = framebuffer
    /\ history' = Append(history, Call("set_current_color", 0, 0, 0, 0, color))
    /\ UNCHANGED <<panicked, pc, shader_index, frags, time>>
    /\ UNCHANGED mesh

PointWithEmission(x, y, depth, emission) ==
    /\ ApiReady
    /\ framebuffer' = point_with_emission(framebuffer, x, y, depth, emission)
    /\ panicked' = PointPanics(framebuffer, x, y)
    /\ pre' = framebuffer
    /\ history' = Append(history,
                         Call("point_with_emission", x, y, depth, emission, 0))
    /\ UNCHANGED <<pc, shader_index, frags, time>>
    /\ UNCHANGED mesh

Init ==
    /\ framebuffer = new(FbWidth, FbHeight)
    /\ panicked = FALSE
    /\ history = << >>
    /\ pre = new(FbWidth, FbHeight)
    /\ pc = "api"
    /\ shader_index = 0
    /\ frags = << >>
    /\ time = 0
    /\ vertex_array = << >>
    /\ transformed_vertices = << >>
    /\ triangles = << >>

Next ==
    \/ Clear
    \/ \E color \in BackgroundColors : SetBackgroundColor(color)
    \/ \E color \in DrawColors : SetCurrentColor(color)
    \/ \E x \in 0 .. FbWidth, y \in 0 .. FbHeight,
          depth \in F32Values, emission \in Emissions :
          PointWithEmission(x, y, depth, emission)

Spec == Init /\ [][Next]_vars

(***************************************************************************)
(* blend_emission (main.rs). The closure works in f32:                      *)
(*     ((c1 as f32 * 0.8) + (c2 as f32 * 0.2)).min(255.0) as u32            *)
(* An f32 has a 24-bit significand. 0.8f32 = F32Mantissa * 2^-24 and        *)
(* 0.2f32 = F32Mantissa * 2^-26. Each product and the sum is rounded to the *)
(* nearest f32, ties to even. Exact intermediate values need up to 34 bits, *)
(* so they are kept as <<hi, lo>> = hi * 4096 + lo with lo < 4096.          *)
(***************************************************************************)
BitLen(n) == CHOOSE k \in 0 .. 30 : n < 2 ^ k /\ (k = 0 \/ n >= 2 ^ (k - 1))

\* the exact product of an 8-bit integer and a 24-bit significand
WideMul(c, m) ==
    LET p == c * (m % 4096)
    IN  <<c * (m \div 4096) + p \div 4096, p % 4096>>

\* q * 2^sh as a wide value, for sh <= 12
WideShl(q, sh) ==
    <<q \div 2 ^ (12 - sh), (q % 2 ^ (12 - sh)) * 2 ^ sh>>

WideAdd(a, b) ==
    <<a[1] + b[1] + (a[2] + b[2]) \div 4096, (a[2] + b[2]) % 4096>>

\* Round a wide value to 24 significant bits, ties to even: <<q, s>> stands
\* for q * 2^s.
RoundF32(w) ==
    IF w[1] < 4096 THEN <<w[1] * 4096 + w[2], 0>>
    ELSE LET s    == BitLen(w[1]) - 12
             q0   == w[1] * 2 ^ (12 - s) + w[2] \div 2 ^ s
             rem  == w[2] % 2 ^ s
             half == 2 ^ (s - 1)
             up   == rem > half \/ (rem = half /\ q0 % 2 = 1)
         IN  <<IF up THEN q0 + 1 ELSE q0, s>>

\* `.min(255.0) as u32` of the f32 q * 2^s * 2^-26: the cast truncates
\* (Min255Rounded: a cast that rounds to nearest).
Min255Rounded(f) ==
    LET t == (f[1] + 2 ^ (25 - f[2])) \div 2 ^ (26 - f[2])
    IN  IF t >= 255 THEN 255 ELSE t

Min255AsU32(f) ==
    LET t == f[1] \div 2 ^ (26 - f[2])
    IN  IF t >= 255 THEN 255 ELSE t

\* 0.8f32 = 0x3F4CCCCD and 0.2f32 = 0x3E4CCCCD share the significand 0xCCCCCD.
F32Mantissa == 13421773

blend(c1, c2) ==
    LET a == RoundF32(WideMul(c1, F32Mantissa))      \* c1 * 0.8, unit 2^-24
        b == RoundF32(WideMul(c2, F32Mantissa))      \* c2 * 0.2, unit 2^-26
        sum == RoundF32(WideAdd(WideShl(a[1], a[2] + 2), WideShl(b[1], b[2])))
    IN  Min255AsU32(sum)

\* (v >> 16) & 0xFF, (v >> 8) & 0xFF, v & 0xFF
Red(v) == (v \div 65536) % 256
Green(v) == (v \div 256) % 256
Blue(v) == v % 256

\* (r << 16) | (g << 8) | b
Pack(r, g, b) == r * 65536 + g * 256 + b

blend_emission(color, emission) ==
    Pack(blend(Red(color), Red(emission)),
         blend(Green(color), Green(emission)),
         blend(Blue(color), Blue(emission)))

\* `if *emission != 0`
Emissive_Always(emission) == TRUE

Emissive(emission) == emission # 0

post_process(fb) ==
    [ fb EXCEPT !.buffer =
        [ i \in DOMAIN fb.buffer |->
            IF Emissive(fb.emission_buffer[i])
            THEN blend_emission(fb.buffer[i], fb.emission_buffer[i])
            ELSE fb.buffer[i] ] ]

(***************************************************************************)
(* render (main.rs). The Fragment and Color types and the rasteriser are    *)
(* not part of the sources at hand; the data model gives a fragment an      *)
(* integer screen position and an f32 depth, and a Color three channels in  *)
(* 0 .. 255 with a packed 24-bit form.                                      *)
(***************************************************************************)
Color(r, g, b) == [r |-> r, g |-> g, b |-> b]

\* Color::black()
Black == Color(0, 0, 0)

\* Color::to_hex
to_hex(c) == c.r * 65536 + c.g * 256 + c.b

\* What a shader may return: Color::new(255, 140, 0), Color::new(0, 102, 204).
ShaderColors == {Color(255, 140, 0), Color(0, 102, 204)}

\* Screen coordinates the rasteriser may hand over: one step outside the
\* framebuffer on either side.
FragmentXs == -1 .. FbWidth
FragmentYs == -1 .. FbHeight

\* usize is modelled 30 bits wide: far above every framebuffer dimension.
UsizeModulus == 2 ^ 30

\* `fragment.position.x as usize` on an integer: negative values wrap around.
AsUsize_Saturating(v) == IF v < 0 THEN 0 ELSE v

AsUsize(v) == v % UsizeModulus

\* `if x < framebuffer.width && y < framebuffer.height`
RenderInBounds(fb, x, y) == x < fb.width /\ y < fb.height

\* `match shader_index { ... }`: <<color, emission>>; shaded is what the
\* selected shader returns for the fragment.
ShaderMatch_AllEmissive(index, shaded) == <<shaded, to_hex(shaded)>>

ShaderMatch_FixedGlow(index, shaded) ==
    IF index = 0 THEN <<shaded, 16777215>>
    ELSE IF index \in 1 .. 6 THEN <<shaded, 0>>
    ELSE <<Black, 0>>

ShaderMatch(index, shaded) ==
    IF index = 0 THEN <<shaded, to_hex(shaded)>>
    ELSE IF index \in 1 .. 6 THEN <<shaded, 0>>
    ELSE <<Black, 0>>

\* The body of `for fragment in fragments`, on the framebuffer.
render_fragment_ColorAfterWrite(fb, index, px, py, depth, shaded) ==
    LET x == AsUsize(px)
        y == AsUsize(py)
    IN  IF RenderInBounds(fb, x, y)
        THEN LET ce == ShaderMatch(index, shaded)
             IN  set_current_color(point_with_emission(fb, x, y, depth, ce[2]),
                                   to_hex(ce[1]))
        ELSE fb

render_fragment(fb, index, px, py, depth, shaded) ==
    LET x == AsUsize(px)
        y == AsUsize(py)
    IN  IF RenderInBounds(fb, x, y)
        THEN LET ce == ShaderMatch(index, shaded)
             IN  point_with_emission(set_current_color(fb, to_hex(ce[1])),
                                     x, y, depth, ce[2])
        ELSE fb

\* The calls that body makes.
render_calls(fb, index, px, py, depth, shaded) ==
    LET x == AsUsize(px)
        y == AsUsize(py)
    IN  IF RenderInBounds(fb, x, y)
        THEN LET ce == ShaderMatch(index, shaded)
             IN  << Call("set_current_color", 0, 0, 0, 0, to_hex(ce[1])),
                    Call("point_with_emission", x, y, depth, ce[2], 0) >>
        ELSE << >>

(***************************************************************************)
(* SpecMain: the loop of main.                                              *)
(***************************************************************************)
\* handle_input: keys 1 .. 7 select shader_index 0 .. 6.
ShaderKeys == 0 .. 6

\* Lines 197-226: the framebuffer is built and its background configured.
InitMain ==
    /\ framebuffer = set_background_color(new(FbWidth, FbHeight), 3355477)
    /\ panicked = FALSE
    /\ history = << >>
    /\ pre = set_background_color(new(FbWidth, FbHeight), 3355477)
    /\ pc = "loop"
    /\ shader_index = 0
    /\ frags = << >>
    /\ time = 0
    /\ vertex_array = << >>
    /\ transformed_vertices = << >>
    /\ triangles = << >>

BeginFrame_NoClear(index) ==
    /\ pc = "loop" /\ ~ panicked /\ time < MaxFrames
    /\ shader_index' = index
    /\ history' = << >>
    /\ frags' = << >>
    /\ time' = time + 1
    /\ pc' = "render"
    /\ UNCHANGED <<framebuffer, pre, panicked>>
    /\ UNCHANGED mesh

\* The window is open and Escape is not down: handle_input, then clear().
BeginFrame(index) ==
    /\ pc = "loop" /\ ~ panicked /\ time < MaxFrames
    /\ shader_index' = index
    /\ framebuffer' = clear(framebuffer)
    /\ pre' = clear(framebuffer)
    /\ history' = << Call("clear", 0, 0, 0, 0, 0) >>
    /\ frags' = << >>
    /\ time' = time + 1
    /\ pc' = "render"
    /\ UNCHANGED panicked
    /\ UNCHANGED mesh

\* One iteration of `for fragment in fragments`.
RenderFragment(px, py, depth, shaded) ==
    /\ pc = "render" /\ ~ panicked /\ Len(frags) < MaxFragments
    /\ framebuffer' = render_fragment(framebuffer, shader_index, px, py, depth, shaded)
    /\ panicked' = ( /\ RenderInBounds(framebuffer, AsUsize(px), AsUsize(py))
                     /\ PointPanics(framebuffer, AsUsize(px), AsUsize(py)) )
    /\ pre' = framebuffer
    /\ history' = history \o render_calls(framebuffer, shader_index, px, py, depth, shaded)
    /\ frags' = Append(frags, [x |-> px, y |-> py, depth |-> depth,
                               color |-> to_hex(ShaderMatch(shader_index, shaded)[1]),
                               emission |-> ShaderMatch(shader_index, shaded)[2]])
    /\ UNCHANGED <<pc, shader_index, time>>
    /\ UNCHANGED mesh

\* render returns.
EndRender ==
    /\ pc = "render" /\ ~ panicked
    /\ pc' = "post_process"
    /\ UNCHANGED <<framebuffer, panicked, history, pre, shader_index, frags, time>>
    /\ UNCHANGED mesh

PostProcess ==
    /\ pc = "post_process" /\ ~ panicked
    /\ framebuffer' = post_process(framebuffer)
    /\ pre' = framebuffer
    /\ history' = Append(history, Call("post_process", 0, 0, 0, 0, 0))
    /\ pc' = "present"
    /\ UNCHANGED <<panicked, shader_index, frags, time>>
    /\ UNCHANGED mesh

\* window.update_with_buffer(&framebuffer.buffer, ...), then the frame delay.
Present ==
    /\ pc = "present" /\ ~ panicked
    /\ history' = Append(history, Call("present", 0, 0, 0, 0, 0))
    /\ pc' = "loop"
    /\ UNCHANGED <<framebuffer, panicked, pre, shader_index, frags, time>>
    /\ UNCHANGED mesh

\* The window was closed or Escape is down.
Exit ==
    /\ pc = "loop"
    /\ pc' = "done"
    /\ UNCHANGED <<framebuffer, panicked, history, pre, shader_index, frags, time>>
    /\ UNCHANGED mesh

NextMain ==
    \/ \E index \in {shader_index} \cup ShaderKeys : BeginFrame(index)
    \/ \E px \in FragmentXs, py \in FragmentYs, depth \in F32Values,
          shaded \in ShaderColors : RenderFragment(px, py, depth, shaded)
    \/ EndRender
    \/ PostProcess
    \/ Present
    \/ Exit

SpecMain == InitMain /\ [][NextMain]_vars

(***************************************************************************)
(* SpecBlend: one pixel is painted with a colour and an emission whose      *)
(* channels run over every pair of values, then post_process runs.          *)
(***************************************************************************)
ChannelValues == 0 .. 255

InitBlend ==
    /\ framebuffer = set_background_color(new(FbWidth, FbHeight), 3355477)
    /\ panicked = FALSE
    /\ history = << >>
    /\ pre = set_background_color(new(FbWidth, FbHeight), 3355477)
    /\ pc = "paint"
    /\ shader_index = 0
    /\ frags = << >>
    /\ time = 0
    /\ vertex_array = << >>
    /\ transformed_vertices = << >>
    /\ triangles = << >>

\* clear(), then set_current_color and point_with_emission on the last pixel.
PaintPixel(c, e) ==
    LET color    == Pack(c, e, 255 - c)
        emission == Pack(e, c, 255 - e)
        x        == framebuffer.width - 1
        y        == framebuffer.height - 1
    IN  /\ framebuffer' = point_with_emission(
                             set_current_color(clear(framebuffer), color),
                             x, y, 0, emission)
        /\ history' = << Call("clear", 0, 0, 0, 0, 0),
                         Call("set_current_color", 0, 0, 0, 0, color),
                         Call("point_with_emission", x, y, 0, emission, 0) >>

Paint ==
    /\ pc = "paint"
    /\ \E c \in ChannelValues, e \in ChannelValues : PaintPixel(c, e)
    /\ pre' = framebuffer
    /\ pc' = "post_process"
    /\ UNCHANGED <<panicked, shader_index, frags, time>>
    /\ UNCHANGED mesh

NextBlend ==
    \/ Paint
    \/ PostProcess

SpecBlend == InitBlend /\ [][NextBlend]_vars

(***************************************************************************)
(* SpecGroup: the first half of render, from the vertex array to the list   *)
(* of triangles handed to the rasteriser. A vertex is known here by its     *)
(* position; the Vertex type is not part of the sources at hand.            *)
(***************************************************************************)
MaxVertices == 7

VertexPositions == 1 .. 3

\* A vertex as loaded from the mesh, not yet transformed.
Vertex(p) == [position |-> p, transformed_position |-> <<"model", p>>]

\* Every vertex_array of at most MaxVertices vertices.
VertexArrays ==
    UNION { [1 .. n -> { Vertex(p) : p \in VertexPositions }] : n \in 0 .. MaxVertices }

\* vertex_shader keeps position and sets transformed_position to the screen
\* position computed from it.
vertex_shader(vertex) ==
    [position |-> vertex.position,
     transformed_position |-> <<"screen", vertex.position>>]

\* `for vertex in vertex_array { transformed_vertices.push(vertex_shader(..)) }`
transform_vertices(va) == [k \in 1 .. Len(va) |-> vertex_shader(va[k])]

\* `if i + 2 < transformed_vertices.len()`
HasThree_OffByOne(i, len) == i + 1 < len

HasThree(i, len) == i + 2 < len

\* `for i in (0..len).step_by(3)`: i is the 0-based index of the code, acc the
\* triangles pushed so far and whether an index went out of range.
RECURSIVE GroupFrom(_, _, _)
GroupFrom(tv, i, acc) ==
    IF i >= Len(tv) \/ acc.panicked THEN acc
    ELSE IF HasThree(i, Len(tv))
         THEN IF i + 2 < Len(tv)
              THEN GroupFrom(tv, i + 3,
                       [acc EXCEPT !.triangles =
                           Append(@, <<tv[i + 1], tv[i + 2], tv[i + 3]>>)])
              ELSE [acc EXCEPT !.panicked = TRUE]
         ELSE GroupFrom(tv, i + 3, acc)

group_triangles(tv) == GroupFrom(tv, 0, [triangles |-> << >>, panicked |-> FALSE])

InitGroup ==
    /\ framebuffer = new(FbWidth, FbHeight)
    /\ panicked = FALSE
    /\ history = << >>
    /\ pre = new(FbWidth, FbHeight)
    /\ pc = "transform"
    /\ shader_index = 0
    /\ frags = << >>
    /\ time = 0
    /\ vertex_array \in VertexArrays
    /\ transformed_vertices = << >>
    /\ triangles = << >>

\* Lines 108-112.
TransformVertices ==
    /\ pc = "transform"
    /\ transformed_vertices' = transform_vertices(vertex_array)
    /\ pc' = "group"
    /\ UNCHANGED <<framebuffer, panicked, history, pre, shader_index, frags, time>>
    /\ UNCHANGED <<vertex_array, triangles>>

\* Lines 114-123.
GroupTriangles ==
    /\ pc = "group"
    /\ triangles' = group_triangles(transformed_vertices).triangles
    /\ panicked' = group_triangles(transformed_vertices).panicked
    /\ pc' = "rasterize"
    /\ UNCHANGED <<framebuffer, history, pre, shader_index, frags, time>>
    /\ UNCHANGED <<vertex_array, transformed_vertices>>

NextGroup ==
    \/ TransformVertices
    \/ GroupTriangles

SpecGroup == InitGroup /\ [][NextGroup]_vars

(***************************************************************************)
(* SpecRender: the fragment loop of render, called on a cleared framebuffer *)
(* with any shader_index a caller may pass, those without a shader of their *)
(* own included, and post_process after it.                                 *)
(***************************************************************************)
\* shader_index: usize. 0 .. 6 have an arm of the match, 7 falls to `_`.
RenderIndexes == 0 .. 7

InitRender ==
    /\ framebuffer = clear(set_background_color(new(FbWidth, FbHeight), 3355477))
    /\ panicked = FALSE
    /\ history = << Call("clear", 0, 0, 0, 0, 0) >>
    /\ pre = clear(set_background_color(new(FbWidth, FbHeight), 3355477))
    /\ pc = "render"
    /\ shader_index \in RenderIndexes
    /\ frags = << >>
    /\ time = 0
    /\ vertex_array = << >>
    /\ transformed_vertices = << >>
    /\ triangles = << >>

NextRender ==
    \/ \E px \in FragmentXs, py \in FragmentYs, depth \in F32Values,
          shaded \in ShaderColors : RenderFragment(px, py, depth, shaded)
    \/ EndRender
    \/ PostProcess

SpecRender == InitRender /\ [][NextRender]_vars

(***************************************************************************)
(* Vocabulary of the properties.                                            *)
(***************************************************************************)
LastCall == history[Len(history)]

LastCallIs(op) == history # << >> /\ LastCall.op = op

\* colour, emission and depth stored for pixel i
Pixel(fb, i) == <<fb.buffer[i], fb.emission_buffer[i], fb.zbuffer[i]>>

Arrays(fb) == <<fb.buffer, fb.zbuffer, fb.emission_buffer>>

Pixels == 0 .. framebuffer.width * framebuffer.height - 1

\* the pixel at column x of row y, for 0 <= x < width and 0 <= y < height
OnScreen(x, y) ==
    x >= 0 /\ x < framebuffer.width /\ y >= 0 /\ y < framebuffer.height

PixelAt(x, y) == y * framebuffer.width + x

\* d is a depth that is ordered below e (NaN is ordered with nothing)
Nearer(d, e) == d # NAN /\ e # NAN /\ d < e

MinOf(S) == CHOOSE m \in S : \A n \in S : m <= n

\* Positions in history of the point_with_emission calls made since the
\* last clear() (since construction if there was none).
LastClear ==
    LET cs == { k \in 1 .. Len(history) : history[k].op = "clear" }
    IN  IF cs = {} THEN 0 ELSE CHOOSE k \in cs : \A j \in cs : j <= k

PointCallsAt(i) ==
    { k \in LastClear + 1 .. Len(history) :
        /\ history[k].op = "point_with_emission"
        /\ OnScreen(history[k].x, history[k].y)
        /\ PixelAt(history[k].x, history[k].y) = i }

\* Positions in frags of the fragments of this frame aimed at pixel i.
FragmentsAt(i) ==
    { k \in 1 .. Len(frags) :
        OnScreen(frags[k].x, frags[k].y) /\ PixelAt(frags[k].x, frags[k].y) = i }

(***************************************************************************)
(* C1. point_with_emission on an in-range (x, y): when the stored depth is  *)
(* strictly greater than the incoming depth the pixel takes the current     *)
(* colour, the given emission and the incoming depth together; in every     *)
(* other case (a tie included) colour, emission and depth of the pixel stay *)
(* as they were.                                                            *)
(***************************************************************************)
C1_StrictNearerWins ==
    ( /\ pc = "api"
      /\ LastCallIs("point_with_emission")
      /\ OnScreen(LastCall.x, LastCall.y) )
    => LET i == PixelAt(LastCall.x, LastCall.y)
       IN  IF Nearer(LastCall.depth, pre.zbuffer[i])
           THEN Pixel(framebuffer, i) =
                    <<pre.current_color, LastCall.emission, LastCall.depth>>
           ELSE Pixel(framebuffer, i) = Pixel(pre, i)

\* A call at exactly the stored depth, with another colour and emission,
\* has left the pixel as it was.
C1_Witness ==
    /\ pc = "api"
    /\ LastCallIs("point_with_emission")
    /\ OnScreen(LastCall.x, LastCall.y)
    /\ LET i == PixelAt(LastCall.x, LastCall.y)
       IN  /\ pre.zbuffer[i] = LastCall.depth
           /\ LastCall.depth < INFINITY
           /\ pre.buffer[i] # pre.current_color
           /\ pre.emission_buffer[i] # LastCall.emission
           /\ Pixel(framebuffer, i) = Pixel(pre, i)

(***************************************************************************)
(* C3. Between two clear() calls no stored depth increases, whatever method *)
(* is called, and every stored depth is the minimum of +infinity and the    *)
(* depths of the point_with_emission calls aimed at that pixel since the    *)
(* last clear() (a NaN depth is no depth: it is ordered with nothing).      *)
(***************************************************************************)
C3_DepthIsMinimum ==
    pc = "api" =>
      /\ (history # << >> /\ LastCall.op # "clear") =>
            \A i \in Pixels : framebuffer.zbuffer[i] <= pre.zbuffer[i]
      /\ \A i \in Pixels :
            /\ framebuffer.zbuffer[i] # NAN
            /\ framebuffer.zbuffer[i] =
                 MinOf({INFINITY} \cup
                       ({ history[k].depth : k \in PointCallsAt(i) } \ {NAN}))

\* Two calls aimed at the same pixel, the nearer one first: the stored depth
\* is the first one's, not the last one's.
C3_Witness ==
    /\ pc = "api"
    /\ \E i \in Pixels : \E j, k \in PointCallsAt(i) :
          /\ j < k
          /\ history[j].depth < history[k].depth
          /\ history[k].depth < INFINITY
          /\ framebuffer.zbuffer[i] = history[j].depth

(***************************************************************************)
(* C4. point_with_emission with x >= width or y >= height changes none of   *)
(* the three arrays and does not fail.                                      *)
(***************************************************************************)
C4_OutOfRangeIsNoOp ==
    ( /\ pc = "api"
      /\ LastCallIs("point_with_emission")
      /\ (LastCall.x >= framebuffer.width \/ LastCall.y >= framebuffer.height) )
    => /\ Arrays(framebuffer) = Arrays(pre)
       /\ ~ panicked

\* A call one column past the right edge, at the nearest depth and with an
\* emission, on a framebuffer that already holds a farther pixel.
C4_Witness ==
    /\ pc = "api"
    /\ LastCallIs("point_with_emission")
    /\ LastCall.x = framebuffer.width
    /\ LastCall.y < framebuffer.height
    /\ LastCall.depth = 0
    /\ LastCall.emission # 0
    /\ \E i \in Pixels : pre.zbuffer[i] # INFINITY /\ pre.zbuffer[i] > 0
    /\ ~ panicked

(***************************************************************************)
(* C6. clear() leaves every pixel with the configured background colour,    *)
(* depth +infinity and emission zero.                                       *)
(***************************************************************************)
C6_ClearResetsAll ==
    (pc = "api" /\ LastCallIs("clear")) =>
      /\ framebuffer.background_color = pre.background_color
      /\ \A i \in Pixels :
            Pixel(framebuffer, i) = <<pre.background_color, 0, INFINITY>>

\* clear() after the background was changed and a pixel was written with an
\* emission.
C6_Witness ==
    /\ pc = "api"
    /\ LastCallIs("clear")
    /\ pre.background_color # 0
    /\ \E i \in Pixels :
          /\ pre.zbuffer[i] # INFINITY
          /\ pre.emission_buffer[i] # 0
          /\ pre.buffer[i] # pre.background_color
    /\ \A i \in Pixels :
          Pixel(framebuffer, i) = <<pre.background_color, 0, INFINITY>>

(***************************************************************************)
(* C7. A clear() that directly follows a clear() changes nothing: arrays,   *)
(* background and current colour are as the first call left them.           *)
(***************************************************************************)
C7_ClearIdempotent ==
    ( /\ pc = "api"
      /\ Len(history) >= 2
      /\ history[Len(history)].op = "clear"
      /\ history[Len(history) - 1].op = "clear" )
    => framebuffer = pre

\* Two clear() calls in a row on a framebuffer whose pixels all differed
\* from the cleared state.
C7_Witness ==
    /\ pc = "api"
    /\ Len(history) = 3
    /\ history[1].op = "set_background_color"
    /\ history[1].color # 0
    /\ history[2].op = "clear"
    /\ history[3].op = "clear"
    /\ framebuffer = pre
    /\ \A i \in Pixels : framebuffer.buffer[i] = history[1].color

(***************************************************************************)
(* C2. When render has returned and post_process has not yet run, every     *)
(* pixel holds the colour and emission of the first of the nearest          *)
(* fragments among those aimed at it with a depth below +infinity, and a    *)
(* pixel no such fragment was aimed at holds the background colour, zero    *)
(* emission and depth +infinity.                                            *)
(***************************************************************************)
\* fragments aimed at pixel i whose depth is ordered below +infinity
VisibleAt(i) == { k \in FragmentsAt(i) : Nearer(frags[k].depth, INFINITY) }

FirstNearestAt(i) ==
    CHOOSE k \in VisibleAt(i) : \A j \in VisibleAt(i) :
        \/ frags[k].depth < frags[j].depth
        \/ (frags[k].depth = frags[j].depth /\ k <= j)

C2_NearestVisibleFragment ==
    pc = "post_process" =>
      \A i \in Pixels :
         IF VisibleAt(i) = {}
         THEN Pixel(framebuffer, i) = <<framebuffer.background_color, 0, INFINITY>>
         ELSE /\ framebuffer.buffer[i] = frags[FirstNearestAt(i)].color
              /\ framebuffer.emission_buffer[i] = frags[FirstNearestAt(i)].emission

\* The claim as stated: every pixel a fragment was aimed at holds the colour
\* and emission of a fragment of minimum depth among them, every other pixel
\* the defaults.
C2_AsStated ==
    pc = "post_process" =>
      \A i \in Pixels :
         IF FragmentsAt(i) = {}
         THEN Pixel(framebuffer, i) = <<framebuffer.background_color, 0, INFINITY>>
         ELSE \E k \in FragmentsAt(i) :
                /\ \A j \in FragmentsAt(i) : ~ Nearer(frags[j].depth, frags[k].depth)
                /\ framebuffer.buffer[i] = frags[k].color
                /\ framebuffer.emission_buffer[i] = frags[k].emission

\* A frame of the sun: a pixel hit by a near fragment and then by a farther
\* one of another colour, and another pixel aimed at only by a fragment at
\* depth +infinity.
C2_Witness ==
    /\ pc = "post_process"
    /\ shader_index = 0
    /\ \E i \in Pixels :
          /\ FragmentsAt(i) = {1, 2}
          /\ frags[1].depth < frags[2].depth
          /\ frags[2].depth < INFINITY
          /\ frags[1].color # frags[2].color
          /\ framebuffer.buffer[i] = frags[1].color
          /\ framebuffer.emission_buffer[i] = frags[1].emission
          /\ frags[1].emission # 0
    /\ \E i \in Pixels : FragmentsAt(i) = {}

(***************************************************************************)
(* C5. When exactly two fragments of the frame were aimed at a pixel and    *)
(* one is nearer than the other, the pixel holds colour, emission and depth *)
(* of the nearer one, in whichever order render wrote them.                 *)
(***************************************************************************)
C5_NearerOfTwoWins ==
    pc \in {"render", "post_process"} =>
      \A i \in Pixels : \A a, b \in FragmentsAt(i) :
         (FragmentsAt(i) = {a, b} /\ Nearer(frags[a].depth, frags[b].depth))
         => Pixel(framebuffer, i) =
               <<frags[a].color, frags[a].emission, frags[a].depth>>

\* The farther fragment was written first and the nearer one, of another
\* colour, replaced it.
C5_Witness ==
    /\ pc = "render"
    /\ Len(frags) = 2
    /\ \E i \in Pixels :
          /\ FragmentsAt(i) = {1, 2}
          /\ frags[2].depth < frags[1].depth
          /\ frags[1].depth < INFINITY
          /\ frags[1].color # frags[2].color
          /\ pre.buffer[i] = frags[1].color
          /\ Pixel(framebuffer, i) =
                <<frags[2].color, frags[2].emission, frags[2].depth>>

(***************************************************************************)
(* C8. post_process leaves the colour of every pixel whose emission is zero *)
(* as it was.                                                               *)
(***************************************************************************)
C8_ZeroEmissionUntouched ==
    pc = "present" =>
      \A i \in Pixels :
         pre.emission_buffer[i] = 0 => framebuffer.buffer[i] = pre.buffer[i]

\* post_process has run over a frame with an emissive pixel and a pixel of
\* zero emission that render wrote.
C8_Witness ==
    /\ pc = "present"
    /\ LastCallIs("post_process")
    /\ \E i \in Pixels : pre.emission_buffer[i] # 0
    /\ \E i \in Pixels :
          /\ pre.emission_buffer[i] = 0
          /\ pre.buffer[i] # 0
          /\ framebuffer.buffer[i] = pre.buffer[i]

(***************************************************************************)
(* C9. For a pixel with non-zero emission post_process replaces each colour *)
(* channel c by 0.8*c + 0.2*e with the fraction cut off (never above 255),  *)
(* e being the same channel of the emission.                                *)
(***************************************************************************)
\* channel 2 is red, 1 green, 0 blue
Channel(v, k) == (v \div 256 ^ k) % 256

Min255(n) == IF n > 255 THEN 255 ELSE n

C9_BlendTruncates ==
    (pc = "present" /\ LastCallIs("post_process")) =>
      \A i \in Pixels : pre.emission_buffer[i] # 0 =>
         \A k \in 0 .. 2 :
            Channel(framebuffer.buffer[i], k) =
               Min255((4 * Channel(pre.buffer[i], k)
                         + Channel(pre.emission_buffer[i], k)) \div 5)

\* The claim as stated: round(0.8*c + 0.2*e), clamped to 255.
C9_AsStated ==
    (pc = "present" /\ LastCallIs("post_process")) =>
      \A i \in Pixels : pre.emission_buffer[i] # 0 =>
         \A k \in 0 .. 2 :
            Channel(framebuffer.buffer[i], k) =
               Min255((2 * (4 * Channel(pre.buffer[i], k)
                              + Channel(pre.emission_buffer[i], k)) + 5) \div 10)

\* Red 1 blended with red 0 of a non-zero emission: 0.8 becomes 0.
C9_Witness ==
    /\ pc = "present"
    /\ LastCallIs("post_process")
    /\ \E i \in Pixels :
          /\ pre.emission_buffer[i] # 0
          /\ Channel(pre.buffer[i], 2) = 1
          /\ Channel(pre.emission_buffer[i], 2) = 0
          /\ Channel(framebuffer.buffer[i], 2) = 0

(***************************************************************************)
(* C10. A fragment whose screen position lies outside the framebuffer, on   *)
(* either side, changes none of the three arrays and raises no error.       *)
(***************************************************************************)
LastFragment == frags[Len(frags)]

C10_OffScreenFragmentDropped ==
    ( /\ pc = "render"
      /\ frags # << >>
      /\ ~ OnScreen(LastFragment.x, LastFragment.y) )
    => /\ Arrays(framebuffer) = Arrays(pre)
       /\ ~ panicked

\* After a fragment was written, one at column -1 of a row of the screen
\* arrives with a nearer depth and is dropped.
C10_Witness ==
    /\ pc = "render"
    /\ Len(frags) = 2
    /\ OnScreen(frags[1].x, frags[1].y)
    /\ frags[1].depth = 1
    /\ frags[2].x = -1
    /\ frags[2].y >= 0 /\ frags[2].y < framebuffer.height
    /\ frags[2].depth = 0
    /\ frags[2].color # frags[1].color
    /\ Arrays(framebuffer) = Arrays(pre)
    /\ ~ panicked

(***************************************************************************)
(* C11. render groups a vertex sequence of length n into exactly           *)
(* floor(n/3) triangles, the k-th triangle being the (transformed)         *)
(* vertices 3k, 3k+1, 3k+2 in input order; the trailing n mod 3 vertices   *)
(* are dropped without error and are part of no triangle, for every n,     *)
(* 0, 1 and 2 included.                                                    *)
(***************************************************************************)
C11_GroupsOfThree ==
    pc = "rasterize"
    => LET n == Len(vertex_array)
       IN  /\ ~ panicked
           /\ Len(triangles) = n \div 3
           /\ \A k \in 0 .. (n \div 3) - 1 :
                 triangles[k + 1] = << vertex_shader(vertex_array[3 * k + 1]),
                                       vertex_shader(vertex_array[3 * k + 2]),
                                       vertex_shader(vertex_array[3 * k + 3]) >>

\* Seven vertices were grouped: two triangles, one vertex left over.
C11_Witness ==
    /\ pc = "rasterize"
    /\ Len(vertex_array) % 3 # 0
    /\ Len(triangles) = 2

(***************************************************************************)
(* C12. In render only shader_index 0 is emissive: with index 0 the         *)
(* emission passed to point_with_emission is the packed colour just given   *)
(* to set_current_color, a shaded colour; with an index in 1 .. 6 the       *)
(* colour is a shaded colour and the emission passed is 0; with any other   *)
(* index the colour is black and the emission 0. So a frame rendered with   *)
(* an index other than 0 leaves the emission of every pixel at zero.        *)
(***************************************************************************)
C12_OnlySunEmissive ==
    pc \in {"render", "post_process"}
    => /\ \A k \in 1 .. Len(history) :
             history[k].op = "point_with_emission"
             => /\ k > 1 /\ history[k - 1].op = "set_current_color"
                /\ IF shader_index = 0
                   THEN /\ history[k].emission = history[k - 1].color
                        /\ history[k - 1].color \in { to_hex(c) : c \in ShaderColors }
                   ELSE IF shader_index \in 1 .. 6
                   THEN /\ history[k].emission = 0
                        /\ history[k - 1].color \in { to_hex(c) : c \in ShaderColors }
                   ELSE /\ history[k].emission = 0
                        /\ history[k - 1].color = to_hex(Black)
       /\ shader_index # 0 => \A i \in Pixels : framebuffer.emission_buffer[i] = 0

\* render has returned after writing a pixel with a shader that is not the
\* sun: the pixel took the shaded colour and its emission is zero.
C12_Witness ==
    /\ pc = "post_process"
    /\ shader_index \in 1 .. 6
    /\ \E i \in Pixels :
          /\ framebuffer.buffer[i] = to_hex(Color(0, 102, 204))
          /\ framebuffer.zbuffer[i] # INFINITY
          /\ framebuffer.emission_buffer[i] = 0

(***************************************************************************)
(* C13. set_background_color and set_current_color change no element of    *)
(* the colour, depth or emission arrays; the colour stored by a winning     *)
(* point_with_emission is the value given to the most recent                *)
(* set_current_color (white, 0xFFFFFF, if it was never called); and a new   *)
(* background colour reaches the colour array only at the next clear(),     *)
(* which fills it with the value given to the most recent                   *)
(* set_background_color (black if it was never called).                     *)
(***************************************************************************)
MostRecent(op, default) ==
    LET ks == { k \in 1 .. Len(history) : history[k].op = op }
    IN  IF ks = {} THEN default
        ELSE history[CHOOSE k \in ks : \A j \in ks : j <= k].color

C13_SettersOnlyConfigure ==
    (pc = "api" /\ history # << >>)
    => /\ LastCall.op \in {"set_background_color", "set_current_color"}
          => Arrays(framebuffer) = Arrays(pre)
       /\ ( /\ LastCall.op = "point_with_emission"
            /\ OnScreen(LastCall.x, LastCall.y)
            /\ Nearer(LastCall.depth, pre.zbuffer[PixelAt(LastCall.x, LastCall.y)]) )
          => framebuffer.buffer[PixelAt(LastCall.x, LastCall.y)] =
                MostRecent("set_current_color", 16777215)
       /\ LastCall.op = "clear"
          => \A i \in Pixels :
                framebuffer.buffer[i] = MostRecent("set_background_color", 0)
       /\ LastCall.op # "clear"
          => \A i \in Pixels :
                framebuffer.buffer[i] # pre.buffer[i]
                => framebuffer.buffer[i] = MostRecent("set_current_color", 16777215)

\* The background was set to a new colour, the current colour to red, and a
\* pixel was then written: it is red, and no pixel shows the new background.
C13_Witness ==
    /\ pc = "api"
    /\ Len(history) = 3
    /\ history[1].op = "set_background_color" /\ history[1].color = 3355477
    /\ history[2].op = "set_current_color" /\ history[2].color = 16711680
    /\ history[3].op = "point_with_emission"
    /\ \E i \in Pixels : framebuffer.buffer[i] = 16711680
    /\ \A i \in Pixels : framebuffer.buffer[i] # 3355477

(***************************************************************************)
(* C14. In the loop of main every frame runs clear, render, post_process,   *)
(* present in that order: clear() is the first call of the frame and comes  *)
(* before every fragment write; post_process runs exactly once per frame,   *)
(* after all fragment writes of the frame; the colour buffer is presented   *)
(* only after post_process, and it is the buffer post_process left; and     *)
(* when render starts, no pixel holds a fragment of an earlier frame.       *)
(***************************************************************************)
CallsOf(ops) == { k \in 1 .. Len(history) : history[k].op \in ops }

Before(S, T) == \A j \in S, k \in T : j < k

C14_StagesInOrder ==
    LET clears   == CallsOf({"clear"})
        writes   == CallsOf({"set_current_color", "point_with_emission"})
        posts    == CallsOf({"post_process"})
        presents == CallsOf({"present"})
    IN  /\ time = 0 => history = << >>
        /\ time > 0 =>
             /\ clears = {1}
             /\ Before(clears, writes)
             /\ Before(writes, posts)
             /\ Before(posts, presents)
             /\ pc \in {"render", "post_process"} => posts = {} /\ presents = {}
             /\ pc = "present" => Cardinality(posts) = 1 /\ presents = {}
             /\ pc \in {"loop", "done"}
                => /\ Cardinality(posts) = 1
                   /\ Cardinality(presents) = 1
                   /\ framebuffer.buffer = post_process(pre).buffer
             /\ (pc = "render" /\ frags = << >>)
                => \A i \in Pixels :
                      Pixel(framebuffer, i) =
                         <<framebuffer.background_color, 0, INFINITY>>

\* The last frame allowed has been presented, and in it a fragment was
\* written to a pixel.
C14_Witness ==
    /\ pc = "loop"
    /\ time = MaxFrames
    /\ LastCallIs("present")
    /\ \E k \in CallsOf({"point_with_emission"}) :
          framebuffer.zbuffer[PixelAt(history[k].x, history[k].y)] = history[k].depth

(***************************************************************************)
(* C15. After clear() followed by render with any shader_index and any      *)
(* fragments, and before post_process, the emission of every pixel is       *)
(* either 0 or equal to the colour stored for that pixel; so every pixel    *)
(* post_process blends is blended with an emission identical to its own     *)
(* colour.                                                                  *)
(***************************************************************************)
C15_EmissionIsOwnColor ==
    /\ pc \in {"render", "post_process"}
       => \A i \in Pixels :
             \/ framebuffer.emission_buffer[i] = 0
             \/ framebuffer.emission_buffer[i] = framebuffer.buffer[i]
    /\ (pc = "present" /\ LastCallIs("post_process"))
       => \A i \in Pixels :
             pre.emission_buffer[i] # 0
             => /\ pre.emission_buffer[i] = pre.buffer[i]
                /\ framebuffer.buffer[i] =
                      blend_emission(pre.buffer[i], pre.buffer[i])

\* post_process has blended a pixel the sun shader wrote.
C15_Witness ==
    /\ pc = "present"
    /\ LastCallIs("post_process")
    /\ shader_index = 0
    /\ \E i \in Pixels :
          /\ pre.emission_buffer[i] = to_hex(Color(255, 140, 0))
          /\ pre.buffer[i] = to_hex(Color(255, 140, 0))

====
